---- MODULE Spec2Model ----
(***************************************************************************)
(* State-machine model of the AI Study Buddy API (src/main.py): the two    *)
(* sqlite tables, the five request handlers plus the health check, the     *)
(* blocking Model Gateway call, and the single uvicorn event loop on which *)
(* every "async def" handler runs.                                         *)
(***************************************************************************)
EXTENDS Integers, Sequences, FiniteSets, TLC

(* ------------------------------ bounds -------------------------------- *)

\* datetime.now() takes the values 0..MaxClock
MaxClock == 1
\* the model's reply is a text of at most MaxLen tokens
MaxLen == 5
\* hash() of a str is a signed integer of HashBits bits
HashBits == 7
\* the server executes at most MaxInserts INSERT statements in one run
MaxInserts == 3

(* ------------------------------ domains ------------------------------- *)

\* the names a client sends to create-user, in code-point order
NameOrder == <<"Ana">>
Names == {NameOrder[i] : i \in DOMAIN NameOrder}
\* the instants datetime.now() returns
Clock == 0..MaxClock
\* the quiz identifiers a client sends to submit-quiz
QuizIds == {"q1", "q2"}

\* subjects in the collation order of the store (GROUP BY sorts by it)
SubjectOrder == <<"bio", "math">>
Subjects == {SubjectOrder[i] : i \in DOMAIN SubjectOrder}
NoSubject == "None"
Topics == {"cells"}
Difficulties == {"easy"}
Messages == {"why?"}
GradeLevels == {"9"}

SeqsUpTo(S, n) == UNION {[1..k -> S] : k \in 0..n}

\* the answer lists a client submits
AnswerLists == {<<>>, <<"B", "A">>}
\* the subject list a client sends to create-user
SubjectLists == {<<"bio", "math">>}

\* the tokens a model reply is made of: "q" is one well-formed question
\* object, "x" is any text that is not JSON
Tokens == {"[", "]", ",", "q", "x"}
Texts == SeqsUpTo(Tokens, MaxLen)
\* replies of each kind: no array, a valid array, a bracketed non-array
SampleTexts == {<<"x">>, <<"[", "q", "]">>, <<"[", "x", "]">>}

HashVals == -(2 ^ (HashBits - 1)) .. (2 ^ (HashBits - 1)) - 1
\* a seed that gives the users scores on both sides of 80
SampleSeeds == {17}

(* ------------------------------- state -------------------------------- *)

VARIABLES
    users,          \* rows of table users
    quiz_history,   \* rows of table quiz_history
    now,            \* the wall clock read by datetime.now()
    hashSeed,       \* the per-process seed of str hashing
    running,        \* the handler that holds the event loop inside
                    \* model.generate_content, or NoReq
    resp,           \* the response produced last
    inserts,        \* number of INSERT statements executed
    openConns,      \* sqlite connections opened and not closed
    okSubmits       \* per quiz_id, number of submit-quiz requests answered 200

vars == <<users, quiz_history, now, hashSeed, running, resp, inserts,
          openConns, okSubmits>>

NoReq == [kind |-> "none"]
NoResp == [kind |-> "none", status |-> 0]

(* ------------------------- pure functions ----------------------------- *)

\* hashlib.md5(f"{a}{datetime.now()}".encode()).hexdigest(): the digest of
\* the pair, distinct pairs giving distinct digests
MD5(a, t) == <<a, t>>

\* identifiers of users that create-user can produce; a client can send any
\* of them, created or not
UserIds == {MD5(n, t) : n \in Names, t \in Clock}

\* a value wrapped to a signed integer of HashBits bits
Wrap(x) == ((x + 2 ^ (HashBits - 1)) % (2 ^ HashBits)) - 2 ^ (HashBits - 1)

\* the bytes of a user identifier, read as a number
Bytes(s) ==
    (CHOOSE i \in DOMAIN NameOrder : NameOrder[i] = s[1]) * (MaxClock + 1) + s[2]

\* hash(s) of a str: fixed within the process, any signed value across
\* processes (the seed is drawn when the process starts)
PyHash(s) == Wrap(hashSeed + Bytes(s))

Min(a, b) == IF a < b THEN a ELSE b
Max(a, b) == IF a > b THEN a ELSE b

\* score = min(90, max(60, hash(submission.user_id) % 40 + 60))
Score(h) == Min(90, Max(60, (h % 40) + 60))

\* faulty variant: the threshold compared with > instead of >=
MessageStrict(score) == IF score > 80 THEN "Great job!" ELSE "Keep practicing!"

\* "Great job!" if score >= 80 else "Keep practicing!"
Message(score) == IF score >= 80 THEN "Great job!" ELSE "Keep practicing!"

\* json.dumps of a list of strings, as tokens
RECURSIVE JoinItems(_)
JoinItems(s) ==
    IF Len(s) = 0 THEN <<>>
    ELSE IF Len(s) = 1 THEN <<s[1]>>
    ELSE <<s[1], ",">> \o JoinItems(Tail(s))

JsonDumps(s) == <<"[">> \o JoinItems(s) \o <<"]">>

Ids(tbl) == {r.id : r \in tbl}

(* ------------------------------- store -------------------------------- *)

\* faulty variant: the answers are not counted
QuizRowNoCount(submission, score, t) ==
    [id |-> submission.quiz_id, user_id |-> submission.user_id,
     subject |-> submission.subject, score |-> score,
     total_questions |-> 0, timestamp |-> t]

\* the values bound to INSERT INTO quiz_history
QuizRow(submission, score, t) ==
    [id |-> submission.quiz_id, user_id |-> submission.user_id,
     subject |-> submission.subject, score |-> score,
     total_questions |-> Len(submission.answers), timestamp |-> t]

\* faulty variant: a new user starts at level 0
UserRowLevelZero(user_id, user) ==
    [id |-> user_id, name |-> user.name, subjects |-> JsonDumps(user.subjects),
     level |-> 0, xp |-> 0]

\* the values bound to INSERT INTO users
UserRow(user_id, user) ==
    [id |-> user_id, name |-> user.name, subjects |-> JsonDumps(user.subjects),
     level |-> 1, xp |-> 0]

\* faulty variant: the id column is no key
InsertAlways(tbl, row) == TRUE

\* id TEXT PRIMARY KEY: an INSERT of a row whose id is in the table raises
\* sqlite3.IntegrityError, any other INSERT adds the row
InsertOk(tbl, row) == row.id \notin Ids(tbl)

\* faulty variant: a submission replaces the user's earlier rows
InsertPerUser(tbl, row) == {r \in tbl : r.user_id # row.user_id} \cup {row}

\* INSERT INTO quiz_history, the key being free
InsertQuiz(tbl, row) == tbl \cup {row}

\* INSERT INTO users, the key being free
InsertUser(tbl, row) == tbl \cup {row}

\* SELECT * FROM users WHERE id = ? ; fetchone(): the row as a tuple in
\* column order, or None
NoRow == <<>>
FetchUser(tbl, user_id) ==
    IF user_id \in Ids(tbl)
    THEN LET r == CHOOSE x \in tbl : x.id = user_id
         IN <<r.id, r.name, r.subjects, r.level, r.xp>>
    ELSE NoRow

RECURSIVE SumScores(_)
SumScores(rows) ==
    IF rows = {} THEN 0
    ELSE LET r == CHOOSE x \in rows : TRUE
         IN r.score + SumScores(rows \ {r})

RECURSIVE GCD(_, _)
GCD(a, b) == IF b = 0 THEN a ELSE GCD(b, a % b)

\* AVG(score) of a non-empty group, as the fraction num/den in lowest terms
Avg(rows) ==
    LET s == SumScores(rows)
        n == Cardinality(rows)
        g == GCD(s, n)
    IN [num |-> s \div g, den |-> n \div g]

Group(tbl, user_id, subject) ==
    {r \in tbl : r.user_id = user_id /\ r.subject = subject}

\* faulty variant: one entry for every subject, also those without rows
RECURSIVE StatsUngrouped(_, _, _)
StatsUngrouped(tbl, user_id, i) ==
    IF i > Len(SubjectOrder) THEN <<>>
    ELSE LET g == Group(tbl, user_id, SubjectOrder[i])
         IN <<[subject |-> SubjectOrder[i],
               average_score |-> IF g = {} THEN [num |-> 0, den |-> 1] ELSE Avg(g),
               quiz_count |-> Cardinality(g)]>>
            \o StatsUngrouped(tbl, user_id, i + 1)

\* SELECT subject, AVG(score), COUNT(*) FROM quiz_history WHERE user_id = ?
\* GROUP BY subject ; fetchall(): one tuple per non-empty group, from the
\* i-th subject on
RECURSIVE SubjectStats(_, _, _)
SubjectStats(tbl, user_id, i) ==
    IF i > Len(SubjectOrder) THEN <<>>
    ELSE LET g == Group(tbl, user_id, SubjectOrder[i])
             rest == SubjectStats(tbl, user_id, i + 1)
         IN IF g = {} THEN rest
            ELSE <<[subject |-> SubjectOrder[i], average_score |-> Avg(g),
                    quiz_count |-> Cardinality(g)]>> \o rest

(* --------------------------- quiz extraction -------------------------- *)

FirstOpen(text) ==
    IF \E i \in 1..Len(text) : text[i] = "["
    THEN CHOOSE i \in 1..Len(text) :
            text[i] = "[" /\ \A j \in 1..(i - 1) : text[j] # "["
    ELSE 0

LastClose(text) ==
    IF \E i \in 1..Len(text) : text[i] = "]"
    THEN CHOOSE i \in 1..Len(text) :
            text[i] = "]" /\ \A j \in (i + 1)..Len(text) : text[j] # "]"
    ELSE 0

\* re.search(r'\[.*\]', text, re.DOTALL): the match runs from the first "["
\* to the last "]" after it; no match when no "]" follows a "["
ReSearch(text) ==
    LET a == FirstOpen(text)
        b == LastClose(text)
    IN IF a > 0 /\ b > a
       THEN [found |-> TRUE, group |-> SubSeq(text, a, b)]
       ELSE [found |-> FALSE, group |-> <<>>]

\* the object a well-formed question token parses to
ParsedQuestion ==
    [question |-> "q",
     options |-> <<"A) Option 1", "B) Option 2", "C) Option 3", "D) Option 4">>,
     correct_answer |-> "B", explanation |-> "e"]

ParseFail == [ok |-> FALSE, val |-> <<>>, next |-> 0]

\* json.loads on tokens: value ::= "q" | "[" "]" | "[" value ("," value)* "]"
RECURSIVE ParseValue(_, _), ParseElems(_, _, _)
ParseValue(s, i) ==
    IF i > Len(s) THEN ParseFail
    ELSE IF s[i] = "q" THEN [ok |-> TRUE, val |-> ParsedQuestion, next |-> i + 1]
    ELSE IF s[i] = "["
         THEN IF i + 1 <= Len(s) /\ s[i + 1] = "]"
              THEN [ok |-> TRUE, val |-> <<>>, next |-> i + 2]
              ELSE ParseElems(s, i + 1, <<>>)
    ELSE ParseFail

ParseElems(s, i, acc) ==
    LET v == ParseValue(s, i)
    IN IF ~v.ok \/ v.next > Len(s) THEN ParseFail
       ELSE IF s[v.next] = "]"
            THEN [ok |-> TRUE, val |-> Append(acc, v.val), next |-> v.next + 1]
       ELSE IF s[v.next] = ","
            THEN ParseElems(s, v.next + 1, Append(acc, v.val))
       ELSE ParseFail

\* json.loads(s): the value when all of s is one JSON value, else
\* json.JSONDecodeError
JsonLoads(s) ==
    LET v == ParseValue(s, 1)
    IN IF v.ok /\ v.next = Len(s) + 1
       THEN [ok |-> TRUE, val |-> v.val]
       ELSE [ok |-> FALSE, val |-> <<>>]

\* the fallback quiz_data of generate_quiz
Fallback(topic) ==
    <<[question |-> <<"Sample question about ", topic, "?">>,
       options |-> <<"A) Option 1", "B) Option 2", "C) Option 3", "D) Option 4">>,
       correct_answer |-> "A",
       explanation |-> "This is a sample explanation."]>>

\* request.subject or 'General'
SubjectContext(subject) == IF subject = NoSubject THEN "General" ELSE subject

(* ---------------------------- requests -------------------------------- *)

ChatRequests ==
    [message : Messages, user_id : {"anon"}, subject : Subjects \cup {NoSubject}]
QuizRequests ==
    [subject : Subjects, topic : Topics, difficulty : Difficulties,
     num_questions : {1}, user_id : {"anon"}]
QuizSubmissions ==
    [user_id : UserIds, quiz_id : QuizIds, answers : AnswerLists,
     subject : Subjects]
Users == [name : Names, subjects : SubjectLists, grade_level : GradeLevels]

\* raise HTTPException(status_code=500, detail=str(e))
Failure(kind, req, detail) ==
    [kind |-> kind, status |-> 500, req |-> req, body |-> [detail |-> detail]]

Success(kind, req, body) ==
    [kind |-> kind, status |-> 200, req |-> req, body |-> body]

\* the event loop is free to run the handler of a request that has come in:
\* no handler is inside a call that does not return to the loop
LoopFree == running = NoReq

(* ------------------------------ actions ------------------------------- *)

InitOn(seeds) ==
    /\ users = {}
    /\ quiz_history = {}
    /\ now = 0
    /\ hashSeed \in seeds
    /\ running = NoReq
    /\ resp = NoResp
    /\ inserts = 0
    /\ openConns = 0
    /\ okSubmits = [q \in QuizIds |-> 0]

Init == InitOn(SampleSeeds)

\* time passes
Tick ==
    /\ now < MaxClock
    /\ now' = now + 1
    /\ UNCHANGED <<users, quiz_history, hashSeed, running, resp, inserts,
                   openConns, okSubmits>>

\* a connection object that was never closed is reclaimed
Finalize ==
    /\ openConns > 0
    /\ openConns' = openConns - 1
    /\ UNCHANGED <<users, quiz_history, now, hashSeed, running, resp,
                   inserts, okSubmits>>

\* GET /
root ==
    /\ LoopFree
    /\ resp' = Success("root", NoReq,
                       [message |-> "AI Study Buddy API is running!"])
    /\ UNCHANGED <<users, quiz_history, now, hashSeed, running, inserts,
                   openConns, okSubmits>>

\* POST /api/chat up to model.generate_content(system_prompt), which does
\* not return to the event loop while it waits
chat_with_ai_call(request) ==
    /\ LoopFree
    /\ running' = [kind |-> "chat", req |-> request,
                   prompt |-> <<SubjectContext(request.subject), request.message>>]
    /\ UNCHANGED <<users, quiz_history, now, hashSeed, resp, inserts, openConns,
                   okSubmits>>

\* POST /api/chat from the return of the model call on; ok = FALSE is the
\* call (or response.text) raising
chat_with_ai_return(ok, text) ==
    /\ running # NoReq
    /\ running.kind = "chat"
    /\ running' = NoReq
    /\ resp' = IF ok
               THEN Success("chat", running.req,
                            [response |-> text, timestamp |-> now])
               ELSE Failure("chat", running.req, "model error")
    /\ UNCHANGED <<users, quiz_history, now, hashSeed, inserts, openConns,
                   okSubmits>>

\* POST /api/generate-quiz up to model.generate_content(prompt)
generate_quiz_call(request) ==
    /\ LoopFree
    /\ running' = [kind |-> "quiz", req |-> request,
                   prompt |-> <<request.difficulty, request.topic,
                                request.subject, request.num_questions>>]
    /\ UNCHANGED <<users, quiz_history, now, hashSeed, resp, inserts, openConns,
                   okSubmits>>

\* what generate_quiz answers once the model call has ended
QuizResponse(request, ok, text, t) ==
    LET json_match == ReSearch(text)
        loaded == JsonLoads(json_match.group)
    IN IF ~ok THEN Failure("quiz", request, "model error")
       ELSE IF json_match.found /\ ~loaded.ok
            THEN Failure("quiz", request, "JSONDecodeError")
       ELSE Success("quiz", request,
                    [quiz_id |-> MD5(request.user_id, t),
                     questions |-> IF json_match.found THEN loaded.val
                                   ELSE Fallback(request.topic),
                     subject |-> request.subject, topic |-> request.topic,
                     difficulty |-> request.difficulty])

\* POST /api/generate-quiz from the return of the model call on
generate_quiz_return(ok, text) ==
    /\ running # NoReq
    /\ running.kind = "quiz"
    /\ running' = NoReq
    /\ resp' = [QuizResponse(running.req, ok, text, now) EXCEPT
                    !.req = [request |-> running.req, ok |-> ok, text |-> text]]
    /\ UNCHANGED <<users, quiz_history, now, hashSeed, inserts, openConns,
                   okSubmits>>

\* POST /api/submit-quiz
submit_quiz(submission) ==
    LET score == Score(PyHash(submission.user_id))
        row == QuizRow(submission, score, now)
    IN /\ LoopFree
       /\ inserts < MaxInserts
       /\ inserts' = inserts + 1
             /\ IF InsertOk(quiz_history, row)
          THEN /\ quiz_history' = InsertQuiz(quiz_history, row)
               /\ openConns' = openConns
               /\ okSubmits' = [okSubmits EXCEPT ![submission.quiz_id] = @ + 1]
               /\ resp' = Success("submit", submission,
                             [score |-> score,
                              total_questions |-> Len(submission.answers),
                              percentage |-> score,
                              message |-> Message(score),
                              xp_earned |-> score \div 10])
          ELSE /\ quiz_history' = quiz_history
               /\ openConns' = openConns + 1
               /\ okSubmits' = okSubmits
               /\ resp' = Failure("submit", submission,
                                  "UNIQUE constraint failed: quiz_history.id")
       /\ UNCHANGED <<users, now, hashSeed, running>>

\* POST /api/create-user
create_user(user) ==
    LET user_id == MD5(user.name, now)
        row == UserRow(user_id, user)
    IN /\ LoopFree
       /\ inserts < MaxInserts
       /\ inserts' = inserts + 1
             /\ IF InsertOk(users, row)
          THEN /\ users' = InsertUser(users, row)
               /\ openConns' = openConns
               /\ resp' = Success("create", user,
                             [user_id |-> user_id,
                              message |-> "User created successfully"])
          ELSE /\ users' = users
               /\ openConns' = openConns + 1
               /\ resp' = Failure("create", user,
                                  "UNIQUE constraint failed: users.id")
       /\ UNCHANGED <<quiz_history, now, hashSeed, running, okSubmits>>

\* str(e) of the HTTPException(404) differs between framework versions
NotFoundDetails == {"404: User not found", ""}

\* what get_user_stats answers; the HTTPException(status_code=404) is raised
\* inside the try block and is caught by "except Exception"
StatsResponse(user_id, user_data, subject_stats, detail) ==
    IF user_data = NoRow
    THEN Failure("stats", user_id, detail)
    ELSE Success("stats", user_id,
                 [user_id |-> user_data[1], name |-> user_data[2],
                  level |-> user_data[4], xp |-> user_data[5],
                  subject_stats |-> subject_stats])

\* GET /api/user-stats/{user_id}
get_user_stats(user_id) ==
    /\ LoopFree
    /\ \E detail \in NotFoundDetails :
          resp' = StatsResponse(user_id, FetchUser(users, user_id),
                                SubjectStats(quiz_history, user_id, 1), detail)
    /\ UNCHANGED <<users, quiz_history, now, hashSeed, running, inserts,
                   openConns, okSubmits>>

StoreHandler ==
    \/ \E submission \in QuizSubmissions : submit_quiz(submission)
    \/ \E user \in Users : create_user(user)
    \/ \E user_id \in UserIds : get_user_stats(user_id)

GatewayCall ==
    \/ \E request \in ChatRequests : chat_with_ai_call(request)
    \/ \E request \in QuizRequests : generate_quiz_call(request)

\* a handler starts on the event loop
HandlerStart == root \/ GatewayCall \/ StoreHandler

\* the model call of the running handler ends, with a reply among texts or
\* with an error
ModelReturn(texts) ==
    \/ \E text \in texts : chat_with_ai_return(TRUE, text)
    \/ chat_with_ai_return(FALSE, <<>>)
    \/ \E text \in texts : generate_quiz_return(TRUE, text)
    \/ generate_quiz_return(FALSE, <<>>)

\* the whole service, on sample replies and seeds
Next == Tick \/ Finalize \/ HandlerStart \/ ModelReturn(SampleTexts)

Spec == Init /\ [][Next]_vars

\* the handlers that use the store
NextStore == Tick \/ Finalize \/ StoreHandler

SpecStore == Init /\ [][NextStore]_vars

\* the first submission to a fresh store, for every seed
NextScore ==
    \/ Tick
    \/ inserts = 0 /\ \E submission \in QuizSubmissions : submit_quiz(submission)

SpecScore == InitOn(HashVals) /\ [][NextScore]_vars

\* the first request that calls the model, for every reply of at most
\* MaxLen tokens
NextGateway ==
    \/ Tick
    \/ resp = NoResp /\ GatewayCall
    \/ ModelReturn(Texts)

SpecGateway == Init /\ [][NextGateway]_vars

(* ------------------------------ claims -------------------------------- *)

\* a step in which submit_quiz, create_user or get_user_stats answers
SubmitStep == inserts' = inserts + 1 /\ resp'.kind = "submit"
CreateStep == inserts' = inserts + 1 /\ resp'.kind = "create"
StatsStep == resp' # resp /\ resp'.kind = "stats"

\* C1: user-stats for an identifier that has no row in users ends with
\* HTTP 404 (users only grows, so an identifier absent now was absent when
\* the request was served)
C1_NotFoundIs404 ==
    (resp.kind = "stats" /\ resp.req \notin Ids(users)) => resp.status = 404

\* what C2 says the questions list is for a reply text
C2_Questions(text, topic) ==
    LET m == ReSearch(text)
    IN IF m.found /\ JsonLoads(m.group).ok THEN JsonLoads(m.group).val
       ELSE Fallback(topic)

\* C2: when the model call succeeds, generate-quiz answers 200 and its
\* questions are the parsed array, or the one fallback question when the
\* text holds no bracketed array or the bracketed substring is not JSON
C2_QuizNeverFails ==
    (resp.kind = "quiz" /\ resp.req.ok) =>
        /\ resp.status = 200
        /\ resp.body.questions =
                C2_Questions(resp.req.text, resp.req.request.topic)

\* the request adds exactly one row, whose total_questions is the number of
\* submitted answers
C3_AddsOneRow ==
    \E row \in quiz_history' :
        /\ row \notin quiz_history
        /\ quiz_history' = quiz_history \cup {row}
        /\ row.id = resp'.req.quiz_id
        /\ row.total_questions = Len(resp'.req.answers)

\* C3 as stated: every submit-quiz request adds exactly one row to
\* quiz_history, with total_questions the number of submitted answers, also
\* when a row with the same quiz_id exists
C3_EverySubmitAddsRow == [][SubmitStep => C3_AddsOneRow]_vars

\* C3 as amended: a submit-quiz request whose quiz_id is not the id of a
\* quiz_history row adds exactly one row, with total_questions the number of
\* submitted answers, and answers 200; one whose quiz_id is the id of a row
\* adds none
C3_FreshSubmitAddsRow ==
    [][SubmitStep =>
        IF resp'.req.quiz_id \in Ids(quiz_history)
        THEN quiz_history' = quiz_history
        ELSE C3_AddsOneRow /\ resp'.status = 200]_vars

\* a second submission has been stored, with a non-empty answer list
C3_Witness ==
    /\ resp.kind = "submit"
    /\ resp.status = 200
    /\ Len(resp.req.answers) = 2
    /\ Cardinality(quiz_history) = 2

\* C4: a submit-quiz that answers 200 returns a score in 60..99, percentage
\* equal to score, xp_earned equal to score integer-divided by 10, the
\* message "Great job!" exactly when score >= 80, and the stored row holds
\* the returned score
C4_ScoreShape ==
    (resp.kind = "submit" /\ resp.status = 200) =>
        /\ resp.body.score \in 60..99
        /\ resp.body.percentage = resp.body.score
        /\ resp.body.xp_earned * 10 <= resp.body.score
        /\ resp.body.score < (resp.body.xp_earned + 1) * 10
        /\ (resp.body.message = "Great job!") <=> (resp.body.score >= 80)
        /\ \E row \in quiz_history :
              row.id = resp.req.quiz_id /\ row.score = resp.body.score

\* a submission by a user whose hash is negative has been scored
C4_Witness ==
    /\ resp.kind = "submit"
    /\ resp.status = 200
    /\ PyHash(resp.req.user_id) < 0
    /\ resp.body.score >= 80

\* C5: create-user stores the name it was given under the identifier it
\* returns, and user-stats for a created user with no quiz_history row
\* answers 200 with that identifier, the stored name, level 1, xp 0 and no
\* subject_stats
C5_FreshUserStats ==
    [][/\ (CreateStep /\ resp'.status = 200) =>
            \E row \in users' :
                /\ row \notin users
                /\ row.id = resp'.body.user_id
                /\ row.name = resp'.req.name
       /\ (StatsStep /\ resp'.req \in Ids(users)
             /\ \A r \in quiz_history : r.user_id # resp'.req) =>
            /\ resp'.status = 200
            /\ resp'.body.user_id = resp'.req
            /\ \A row \in users :
                  row.id = resp'.req => resp'.body.name = row.name
            /\ resp'.body.level = 1
            /\ resp'.body.xp = 0
            /\ resp'.body.subject_stats = <<>>]_vars

\* stats of a created user were served after another user's submission
C5_Witness ==
    /\ resp.kind = "stats"
    /\ resp.status = 200
    /\ resp.body.subject_stats = <<>>
    /\ quiz_history # {}

\* C6: no step removes or changes a row of users or quiz_history, every
\* users row has level 1 and xp 0, and submit-quiz leaves users unchanged
C6_InsertOnly ==
    [][/\ users \subseteq users'
       /\ quiz_history \subseteq quiz_history'
       /\ \A row \in users' : row.level = 1 /\ row.xp = 0
       /\ SubmitStep => users' = users]_vars

\* a model reply was served after rows were written to both tables
C6_Witness ==
    /\ resp.kind = "chat"
    /\ users # {}
    /\ Cardinality(quiz_history) = 2

\* C7: while a handler waits for its model call, the handler of another
\* request can start
C7_OthersProceed == running # NoReq => ENABLED HandlerStart

\* C8: when no handler is running, no store connection is open
C8_ConnectionsClosed == running = NoReq => openConns = 0

\* C9: user-stats for an existing user lists exactly the subjects that
\* have quiz_history rows of that user, once each, with the number of those
\* rows and the mean of their scores, and changes neither table
C9_StatsAggregate ==
    [][(StatsStep /\ resp'.req \in Ids(users)) =>
        LET u == resp'.req
            st == resp'.body.subject_stats
        IN /\ resp'.status = 200
           /\ \A s \in Subjects :
                Cardinality({i \in DOMAIN st : st[i].subject = s}) =
                    IF Group(quiz_history, u, s) = {} THEN 0 ELSE 1
           /\ \A i \in DOMAIN st :
                LET g == Group(quiz_history, u, st[i].subject)
                IN /\ st[i].quiz_count = Cardinality(g)
                   /\ st[i].average_score.num * Cardinality(g) =
                          st[i].average_score.den * SumScores(g)
                   /\ st[i].average_score.den > 0
           /\ users' = users
           /\ quiz_history' = quiz_history]_vars

\* stats were served for a user with two submissions in one subject
C9_Witness ==
    /\ resp.kind = "stats"
    /\ resp.status = 200
    /\ \E i \in DOMAIN resp.body.subject_stats :
          resp.body.subject_stats[i].quiz_count = 2

UniqueIds(tbl) == \A r1, r2 \in tbl : r1.id = r2.id => r1 = r2

\* C10: ids are unique in both tables; a submit-quiz whose quiz_id is taken
\* and a create-user whose derived identifier is taken answer 500 and change
\* neither table; once a quiz_id has been submitted, exactly one submission
\* of it has answered 200
C10_PrimaryKeys ==
    [][/\ UniqueIds(users') /\ UniqueIds(quiz_history')
       /\ SubmitStep =>
            /\ resp'.req.quiz_id \in Ids(quiz_history) =>
                  /\ resp'.status = 500
                  /\ users' = users /\ quiz_history' = quiz_history
            /\ okSubmits'[resp'.req.quiz_id] = 1
       /\ CreateStep =>
            (MD5(resp'.req.name, now) \in Ids(users) =>
                  /\ resp'.status = 500
                  /\ users' = users /\ quiz_history' = quiz_history)]_vars

\* a quiz_id was submitted a second time
C10_Witness ==
    /\ resp.kind = "submit"
    /\ resp.status = 500
    /\ okSubmits[resp.req.quiz_id] = 1

====
